---- MODULE Spec2Model ----
(***************************************************************************)
(* Two-player Tic-Tac-Toe (src/vite_frontend/src/main.js).                  *)
(*                                                                         *)
(* The program is one mutable game state (board, current, winner,          *)
(* winningLine, moveCount), the DOM controls rendered from it, and two     *)
(* input handlers that run to completion: handleMove(idx) and              *)
(* resetGame(hard).  Every handler is one action; the render() call that   *)
(* ends a handler is part of that action.                                  *)
(***************************************************************************)
EXTENDS Integers, Sequences, FiniteSets, TLC

\* ------------------------------------------------------------------------
\* Values
\* ------------------------------------------------------------------------

\* JavaScript null in a cell or in state.winner.
Null == "null"

\* JavaScript null in state.winningLine / the null result of getWinningLine.
NoLine == << >>

Marks == {"X", "O"}

CellValues == Marks \cup {Null}

\* for (let i = 0; i < 9; i += 1): the number of cells / cell buttons.
NumCells == 9

Cells == 0 .. (NumCells - 1)

Boards == [Cells -> CellValues]

\* Array(9).fill(null)
EmptyBoard == [i \in Cells |-> Null]

\* The fixed triples, in the order of the source array.
WIN_LINES ==
  << <<0, 1, 2>>, <<3, 4, 5>>, <<6, 7, 8>>,
     <<0, 3, 6>>, <<1, 4, 7>>, <<2, 5, 8>>,
     <<0, 4, 8>>, <<2, 4, 6>> >>

\* JavaScript truthiness of a cell value or of state.winner: null is falsy,
\* the non-empty strings 'X' and 'O' are truthy.
Truthy(v) == v # Null

\* ------------------------------------------------------------------------
\* Engine: pure functions over a board
\* ------------------------------------------------------------------------

\* Variant of LineMatches: the truthiness test of board[a] is missing, so
\* three empty cells match.
LineMatches_NoEmptyCheck(b, line) ==
  /\ b[line[1]] = b[line[2]]
  /\ b[line[1]] = b[line[3]]

\* Variant of LineMatches: the third cell is never compared.
LineMatches_TwoCells(b, line) ==
  /\ Truthy(b[line[1]])
  /\ b[line[1]] = b[line[2]]

\* The condition of the if in the loop body of getWinningLine.
LineMatches(b, line) ==
  /\ Truthy(b[line[1]])
  /\ b[line[1]] = b[line[2]]
  /\ b[line[1]] = b[line[3]]

\* The for-of loop of getWinningLine from position k of WIN_LINES on:
\* returns at the first matching triple, null after the last.
RECURSIVE ScanLines(_, _)
ScanLines(b, k) ==
  IF k > Len(WIN_LINES) THEN NoLine
  ELSE IF LineMatches(b, WIN_LINES[k]) THEN WIN_LINES[k]
  ELSE ScanLines(b, k + 1)

getWinningLine(b) == ScanLines(b, 1)

getWinner(b) ==
  LET line == getWinningLine(b)
  IN  IF line # NoLine THEN b[line[1]] ELSE Null

\* board.every((c) => c !== null)
Full(b) == \A i \in Cells : b[i] # Null

\* Variant of isDraw: the winner test is missing.
isDraw_FullOnly(b) == Full(b)

\* Variant of isDraw: some() in place of every().
isDraw_AnyFilled(b) == (\E i \in Cells : b[i] # Null) /\ ~Truthy(getWinner(b))

isDraw(b) == Full(b) /\ ~Truthy(getWinner(b))

\* ------------------------------------------------------------------------
\* State
\* ------------------------------------------------------------------------

VARIABLES
  board,          \* state.board
  current,        \* state.current
  winner,         \* state.winner
  winningLine,    \* state.winningLine
  moveCount,      \* state.moveCount
  moveCountPill,  \* text of #moveCountPill
  cellButtons,    \* the nine cell buttons: text, flags, classes, label
  statusEl,       \* status readout: text and classes
  actionBtns,     \* disabled flags of the Restart / New Match buttons
  focus,          \* index of the cell button focused by the code, -1 if none
  call,           \* history: the last handler call and the path it took
  lastMark,       \* history: mark placed by the last accepted move since reset
  trail,          \* history: the cell activations since startup or reset,
                  \* kept while they follow one of the named scenarios
  probe           \* engine function call under test (pure-function checks)

gameVars == <<board, current, winner, winningLine, moveCount>>

viewVars == <<moveCountPill, cellButtons, statusEl, actionBtns>>

histVars == <<call, lastMark, trail>>

vars == <<board, current, winner, winningLine, moveCount,
          moveCountPill, cellButtons, statusEl, actionBtns, focus,
          call, lastMark, trail, probe>>

\* ------------------------------------------------------------------------
\* Rendering
\* ------------------------------------------------------------------------

Bool(v) == Truthy(v)

\* Variant of updateStatus: the draw case is missing.
updateStatus_NoDrawCase ==
  statusEl' =
    IF Truthy(winner')
    THEN [text    |-> <<"Winner: ", winner'>>,
          classes |-> (statusEl.classes \cup {"status--done"}) \ {"status--draw"}]
    ELSE [text    |-> <<"Turn: ", current'>>,
          classes |-> statusEl.classes \ {"status--done", "status--draw"}]

\* updateStatus(): reads the state the handler has just written.
\* The text is the element's text content, in segments (the <strong>
\* element of innerHTML contributes its text).
updateStatus ==
  statusEl' =
    IF Truthy(winner')
    THEN [text    |-> <<"Winner: ", winner'>>,
          classes |-> (statusEl.classes \cup {"status--done"}) \ {"status--draw"}]
    ELSE IF isDraw(board')
    THEN [text    |-> <<"It's a draw.">>,
          classes |-> statusEl.classes \cup {"status--done", "status--draw"}]
    ELSE [text    |-> <<"Turn: ", current'>>,
          classes |-> statusEl.classes \ {"status--done", "status--draw"}]

\* The set built from state.winningLine ?? [].
WinSet(wl) == IF wl = NoLine THEN {} ELSE {wl[1], wl[2], wl[3]}

\* Variant of RenderCell: disabled does not look at state.winner.
RenderCell_NoWinnerCheck(i, b, w, wl) ==
  LET v == b[i]
  IN  [textContent |-> IF v = Null THEN "" ELSE v,
       value       |-> IF v = Null THEN "" ELSE v,
       disabled    |-> Bool(v) \/ isDraw(b),
       x           |-> v = "X",
       o           |-> v = "O",
       win         |-> i \in WinSet(wl),
       label       |-> <<"Cell ", i + 1,
                         IF Truthy(v) THEN <<", ", v>> ELSE <<", empty">> >>]

\* One iteration of the loop of render(): the button of cell i.
RenderCell(i, b, w, wl) ==
  LET v == b[i]
  IN  [textContent |-> IF v = Null THEN "" ELSE v,
       value       |-> IF v = Null THEN "" ELSE v,
       disabled    |-> Bool(v) \/ Bool(w) \/ isDraw(b),
       x           |-> v = "X",
       o           |-> v = "O",
       win         |-> i \in WinSet(wl),
       label       |-> <<"Cell ", i + 1,
                         IF Truthy(v) THEN <<", ", v>> ELSE <<", empty">> >>]

\* Variant of render: the win class is added but never removed.
render_WinNeverCleared ==
  /\ moveCountPill' = <<"Moves: ", moveCount'>>
  /\ cellButtons' =
       [i \in Cells |->
          [RenderCell(i, board', winner', winningLine')
             EXCEPT !.win = cellButtons[i].win \/ i \in WinSet(winningLine')]]
  /\ actionBtns' = [resetBtn |-> FALSE, clearBtn |-> FALSE]
  /\ updateStatus

\* render(): reads the state the handler has just written.
render ==
  /\ moveCountPill' = <<"Moves: ", moveCount'>>
  /\ cellButtons' = [i \in Cells |-> RenderCell(i, board', winner', winningLine')]
  /\ actionBtns' = [resetBtn |-> FALSE, clearBtn |-> FALSE]
  /\ updateStatus

\* ------------------------------------------------------------------------
\* Input history
\* ------------------------------------------------------------------------

\* Scenario A: X@0, O@3, X@1, O@4, X@2.
ScenarioA == <<0, 3, 1, 4, 2>>

\* Scenario B: X@0, O@1, X@2, O@4, X@3, O@5, X@7, O@6, X@8.
ScenarioB == <<0, 1, 2, 4, 3, 5, 7, 6, 8>>

Scenarios == {ScenarioA, ScenarioB}

\* The activations since the fresh state follow no scenario.
OffScenario == <<-1>>

IsPrefix(s, t) == Len(s) <= Len(t) /\ SubSeq(t, 1, Len(s)) = s

\* The trail after cell idx is activated (by the click or keydown listener).
Activated(idx) ==
  IF trail # OffScenario
     /\ \E sc \in Scenarios : IsPrefix(Append(trail, idx), sc)
  THEN Append(trail, idx)
  ELSE OffScenario

\* ------------------------------------------------------------------------
\* Phases of a match (history only)
\* ------------------------------------------------------------------------

Phase ==
  IF winner # Null THEN "Won"
  ELSE IF Full(board) THEN "Drawn"
  ELSE "InProgress"

\* ------------------------------------------------------------------------
\* Handlers
\* ------------------------------------------------------------------------

\* Variant of Rejects: the occupied-cell return is missing.
Rejects_NoOccupiedCheck(idx) ==
  \/ Truthy(winner)
  \/ isDraw(board)

\* Variant of Rejects: the return on a recorded winner is missing.
Rejects_NoWinnerCheck(idx) ==
  \/ Truthy(board[idx])
  \/ isDraw(board)

\* The three early returns of handleMove.
Rejects(idx) ==
  \/ Truthy(winner)
  \/ Truthy(board[idx])
  \/ isDraw(board)

\* state.board[idx] = state.current; state.moveCount += 1
Place(idx) ==
  /\ board' = [board EXCEPT ![idx] = current]
  /\ moveCount' = moveCount + 1

\* Variant of Decide: the negation of the draw test is missing, so the
\* turn flips only on a draw.
Decide_FlipOnlyOnDraw ==
  LET line == getWinningLine(board')
  IN  IF line # NoLine
      THEN /\ winner' = current
           /\ winningLine' = line
           /\ current' = current
      ELSE /\ UNCHANGED <<winner, winningLine>>
           /\ current' = IF isDraw(board')
                         THEN (IF current = "X" THEN "O" ELSE "X")
                         ELSE current

\* Variant of Decide: the winning branch stores the line but not the winner.
Decide_WinnerNotRecorded ==
  LET line == getWinningLine(board')
  IN  IF line # NoLine
      THEN /\ winner' = winner
           /\ winningLine' = line
           /\ current' = current
      ELSE /\ UNCHANGED <<winner, winningLine>>
           /\ current' = IF ~isDraw(board')
                         THEN (IF current = "X" THEN "O" ELSE "X")
                         ELSE current

\* Variant of Decide: the winning branch stores the winner but not the line.
Decide_LineNotRecorded ==
  LET line == getWinningLine(board')
  IN  IF line # NoLine
      THEN /\ winner' = current
           /\ winningLine' = winningLine
           /\ current' = current
      ELSE /\ UNCHANGED <<winner, winningLine>>
           /\ current' = IF ~isDraw(board')
                         THEN (IF current = "X" THEN "O" ELSE "X")
                         ELSE current

\* Variant of Decide: the turn is flipped before the outcome is examined,
\* so it also flips on the winning move.
Decide_FlipsOnWin ==
  LET line == getWinningLine(board')
  IN  IF line # NoLine
      THEN /\ winner' = current
           /\ winningLine' = line
           /\ current' = (IF current = "X" THEN "O" ELSE "X")
      ELSE /\ UNCHANGED <<winner, winningLine>>
           /\ current' = IF ~isDraw(board')
                         THEN (IF current = "X" THEN "O" ELSE "X")
                         ELSE current

\* The outcome check of handleMove on the board just written.
Decide ==
  LET line == getWinningLine(board')
  IN  IF line # NoLine
      THEN /\ winner' = current
           /\ winningLine' = line
           /\ current' = current
      ELSE /\ UNCHANGED <<winner, winningLine>>
           /\ current' = IF ~isDraw(board')
                         THEN (IF current = "X" THEN "O" ELSE "X")
                         ELSE current

handleMove(idx) ==
  IF Rejects(idx)
  THEN /\ call' = [op |-> "handleMove", idx |-> idx, hard |-> FALSE,
                   path |-> "rejected", from |-> Phase]
       /\ trail' = Activated(idx)
       /\ UNCHANGED <<gameVars, viewVars, focus, lastMark, probe>>
  ELSE /\ Place(idx)
       /\ Decide
       /\ render
       /\ call' = [op |-> "handleMove", idx |-> idx, hard |-> FALSE,
                   path |-> "placed", from |-> Phase]
       /\ lastMark' = current
       /\ trail' = Activated(idx)
       /\ UNCHANGED <<focus, probe>>

\* Variant of ClearState: a soft reset keeps the move count.
ClearState_SoftKeepsCount(hard) ==
  /\ board' = EmptyBoard
  /\ current' = "X"
  /\ winner' = Null
  /\ winningLine' = NoLine
  /\ moveCount' = IF hard THEN 0 ELSE moveCount

\* Variant of ClearState: the winning line is not cleared.
ClearState_KeepsWinningLine(hard) ==
  /\ board' = EmptyBoard
  /\ current' = "X"
  /\ winner' = Null
  /\ winningLine' = winningLine
  /\ moveCount' = IF hard THEN 0 ELSE 0

\* Variant of ClearState: the winner is not cleared.
ClearState_KeepsWinner(hard) ==
  /\ board' = EmptyBoard
  /\ current' = "X"
  /\ winner' = winner
  /\ winningLine' = NoLine
  /\ moveCount' = IF hard THEN 0 ELSE 0

\* Variant of ClearState: the turn is not given back to X.
ClearState_KeepsCurrent(hard) ==
  /\ board' = EmptyBoard
  /\ current' = current
  /\ winner' = Null
  /\ winningLine' = NoLine
  /\ moveCount' = IF hard THEN 0 ELSE 0

\* The state assignments of resetGame.
ClearState(hard) ==
  /\ board' = EmptyBoard
  /\ current' = "X"
  /\ winner' = Null
  /\ winningLine' = NoLine
  /\ moveCount' = IF hard THEN 0 ELSE 0

resetGame(hard) ==
  /\ ClearState(hard)
  /\ render
  /\ focus' = IF cellButtons'[0].disabled THEN focus ELSE 0
  /\ call' = [op |-> "resetGame", idx |-> -1, hard |-> hard,
              path |-> "reset", from |-> Phase]
  /\ lastMark' = Null
  /\ trail' = << >>
  /\ UNCHANGED probe

\* ------------------------------------------------------------------------
\* Specification of the running page
\* ------------------------------------------------------------------------

NoProbe == [fn |-> "none", board |-> EmptyBoard, line |-> NoLine, mark |-> Null,
            draw |-> FALSE]

\* The state once the module has run: the initial state object, the
\* controls as built, and the initial render() of the last line.
Init ==
  /\ board = EmptyBoard
  /\ current = "X"
  /\ winner = Null
  /\ winningLine = NoLine
  /\ moveCount = 0
  /\ moveCountPill = <<"Moves: ", 0>>
  /\ cellButtons = [i \in Cells |-> RenderCell(i, EmptyBoard, Null, NoLine)]
  /\ actionBtns = [resetBtn |-> FALSE, clearBtn |-> FALSE]
  /\ statusEl = [text |-> <<"Turn: ", "X">>, classes |-> {"status"}]
  /\ focus = -1
  /\ call = [op |-> "init", idx |-> -1, hard |-> FALSE,
             path |-> "init", from |-> "InProgress"]
  /\ lastMark = Null
  /\ trail = << >>
  /\ probe = NoProbe

Next ==
  \/ \E idx \in Cells : handleMove(idx)
  \/ \E hard \in BOOLEAN : resetGame(hard)

Spec == Init /\ [][Next]_vars

\* ------------------------------------------------------------------------
\* The running page when enabled cells keep being activated: a cell
\* activation that handleMove accepts is not postponed forever.
\* ------------------------------------------------------------------------

AcceptedMove == \E idx \in Cells : handleMove(idx) /\ board' # board

LiveSpec == Spec /\ WF_vars(AcceptedMove)

\* ------------------------------------------------------------------------
\* Specification of the engine functions on arbitrary boards
\*
\* The engine functions take any array of 9 cells; probe holds the board a
\* function is called with and what it returned.  The page itself stays in
\* its initial state.
\* ------------------------------------------------------------------------

ProbeArg(b) == [fn |-> "none", board |-> b, line |-> NoLine, mark |-> Null,
                draw |-> FALSE]

PureInit ==
  /\ board = EmptyBoard
  /\ current = "X"
  /\ winner = Null
  /\ winningLine = NoLine
  /\ moveCount = 0
  /\ moveCountPill = <<"Moves: ", 0>>
  /\ cellButtons = [i \in Cells |-> RenderCell(i, EmptyBoard, Null, NoLine)]
  /\ actionBtns = [resetBtn |-> FALSE, clearBtn |-> FALSE]
  /\ statusEl = [text |-> <<"Turn: ", "X">>, classes |-> {"status"}]
  /\ focus = -1
  /\ call = [op |-> "init", idx |-> -1, hard |-> FALSE,
             path |-> "init", from |-> "InProgress"]
  /\ lastMark = Null
  /\ trail = << >>
  /\ probe \in {ProbeArg(b) : b \in Boards}

PageVars == <<gameVars, viewVars, focus, histVars>>

CallGetWinningLine ==
  /\ probe.fn = "none"
  /\ probe' = [probe EXCEPT !.fn = "getWinningLine",
                            !.line = getWinningLine(probe.board)]
  /\ UNCHANGED PageVars

CallGetWinner ==
  /\ probe.fn = "none"
  /\ probe' = [probe EXCEPT !.fn = "getWinner",
                            !.mark = getWinner(probe.board)]
  /\ UNCHANGED PageVars

CallIsDraw ==
  /\ probe.fn = "none"
  /\ probe' = [probe EXCEPT !.fn = "isDraw",
                            !.draw = isDraw(probe.board)]
  /\ UNCHANGED PageVars

PureNext ==
  \/ CallGetWinningLine
  \/ CallGetWinner
  \/ CallIsDraw

PureSpec == PureInit /\ [][PureNext]_vars

\* ------------------------------------------------------------------------
\* Vocabulary of the properties
\* ------------------------------------------------------------------------

\* The step is a call of handleMove (the history variable names the call).
MoveStep == call'.op = "handleMove"

\* The step is a call of handleMove that placed a mark.
AcceptedStep == MoveStep /\ board' # board

\* The game state and everything render() writes.
GameAndView == <<gameVars, viewVars>>

Occupied(b) == {i \in Cells : b[i] # Null}

\* The triples of WIN_LINES that hold three identical non-empty marks.
CompleteLines(b) ==
  {k \in 1 .. Len(WIN_LINES) :
     /\ b[WIN_LINES[k][1]] \in Marks
     /\ b[WIN_LINES[k][2]] = b[WIN_LINES[k][1]]
     /\ b[WIN_LINES[k][3]] = b[WIN_LINES[k][1]]}

Other(m) == IF m = "X" THEN "O" ELSE "X"

ExactlyOne(a, b, c) ==
  \/ (a /\ ~b /\ ~c)
  \/ (~a /\ b /\ ~c)
  \/ (~a /\ ~b /\ c)

\* ------------------------------------------------------------------------
\* C1: a cell activation on an occupied cell, or after a winner is set, or
\* on a full board, changes nothing: board, current, winner, winningLine,
\* moveCount and the rendered view are as before the call.
\* ------------------------------------------------------------------------
C1_RejectedMoveIsNoOp ==
  [][ (/\ MoveStep
       /\ \/ board[call'.idx] # Null
          \/ winner # Null
          \/ Full(board))
      => UNCHANGED GameAndView ]_vars

\* X@0 then O@0: the second activation took the early return.
C1_Witness ==
  /\ call.op = "handleMove"
  /\ call.idx = 0
  /\ call.path = "rejected"
  /\ board = [EmptyBoard EXCEPT ![0] = "X"]
  /\ current = "O"
  /\ moveCount = 1

\* ------------------------------------------------------------------------
\* C2: in every reachable state moveCount equals the number of non-empty
\* cells of the board.
\* ------------------------------------------------------------------------
C2_MoveCountIsOccupied == moveCount = Cardinality(Occupied(board))

\* A board with marks on it, reached again after a reset.
C2_Witness ==
  /\ focus = 0
  /\ call.path = "placed"
  /\ moveCount = 7

\* ------------------------------------------------------------------------
\* C3: between resets consecutive accepted moves place different marks,
\* the first accepted move after startup or reset places X, and once the
\* winner is set or the board is full no cell activation changes current.
\* ------------------------------------------------------------------------
C3_TurnsAlternate ==
  [][ /\ AcceptedStep =>
           /\ board'[call'.idx] \in Marks
           /\ board'[call'.idx] # lastMark
           /\ (lastMark = Null => board'[call'.idx] = "X")
      /\ (MoveStep /\ (winner # Null \/ Full(board))) => current' = current
    ]_vars

\* The second accepted move of a match has placed O after X.
C3_Witness ==
  /\ call.path = "placed"
  /\ moveCount = 2
  /\ lastMark = "O"
  /\ Cardinality({i \in Cells : board[i] = "X"}) = 1

\* ------------------------------------------------------------------------
\* C4: in every reachable state exactly one holds: the winner is set; the
\* board is full with no winner recorded and isDraw(board) is true; the
\* game is in progress (no winner, an empty cell, and every empty cell's
\* activation is accepted).
\* ------------------------------------------------------------------------
C4_ExactlyOnePhase ==
  ExactlyOne(
    winner # Null,
    winner = Null /\ Full(board) /\ isDraw(board),
    /\ winner = Null
    /\ \E i \in Cells : board[i] = Null
    /\ \A i \in Cells : board[i] = Null => ~Rejects(i))

\* A drawn board.
C4_Witness ==
  /\ winner = Null
  /\ Full(board)
  /\ call.path = "placed"

\* ------------------------------------------------------------------------
\* C5: winningLine is set iff winner is set; when set it is one of the 8
\* fixed triples and its three cells hold the same non-empty mark, which is
\* the winner.
\* ------------------------------------------------------------------------
C5_WinningLineMatchesWinner ==
  /\ (winningLine # NoLine) <=> (winner # Null)
  /\ winningLine # NoLine =>
       /\ \E k \in 1 .. Len(WIN_LINES) : winningLine = WIN_LINES[k]
       /\ board[winningLine[1]] \in Marks
       /\ board[winningLine[1]] = board[winningLine[2]]
       /\ board[winningLine[1]] = board[winningLine[3]]
       /\ board[winningLine[1]] = winner

\* O has won on the anti-diagonal.
C5_Witness ==
  /\ winner = "O"
  /\ winningLine = <<2, 4, 6>>

\* ------------------------------------------------------------------------
\* C6: resetGame, soft or hard, from any state, leaves all 9 cells empty,
\* current = X, no winner, no winningLine and moveCount = 0.
\* ------------------------------------------------------------------------
C6_ResetIsFresh ==
  call.op = "resetGame" =>
    /\ board = EmptyBoard
    /\ current = "X"
    /\ winner = Null
    /\ winningLine = NoLine
    /\ moveCount = 0

\* A soft reset taken from a won game.
C6_Witness ==
  /\ call.op = "resetGame"
  /\ call.hard = FALSE
  /\ call.from = "Won"

\* ------------------------------------------------------------------------
\* C7: Won and Drawn are kept, with the same winner and winningLine, by
\* every cell activation; only resetGame leaves them, and it goes to
\* InProgress; no step goes from Won to Drawn or from Drawn to Won.
\* ------------------------------------------------------------------------
C7_TerminalUntilReset ==
  [][ /\ (Phase # "InProgress" /\ MoveStep) =>
           /\ Phase' = Phase
           /\ winner' = winner
           /\ winningLine' = winningLine
      /\ (Phase # "InProgress" /\ Phase' # Phase) =>
           /\ call'.op = "resetGame"
           /\ Phase' = "InProgress"
      /\ call'.op = "resetGame" => Phase' = "InProgress"
      /\ ~(Phase = "Won" /\ Phase' = "Drawn")
      /\ ~(Phase = "Drawn" /\ Phase' = "Won")
    ]_vars

\* A cell was activated on a drawn board.
C7_Witness ==
  /\ call.op = "handleMove"
  /\ call.path = "rejected"
  /\ call.from = "Drawn"
  /\ Phase = "Drawn"

\* ------------------------------------------------------------------------
\* C8: an accepted move that completes a line sets winner to the mover and
\* does not flip the turn, so current = winner whenever winner is set; an
\* accepted move that fills the board without a line leaves current; every
\* other accepted move flips current.
\* ------------------------------------------------------------------------
C8_TurnAfterMove ==
  /\ [](winner # Null => current = winner)
  /\ [][ AcceptedStep =>
           /\ board'[call'.idx] = current
           /\ IF CompleteLines(board') # {}
              THEN winner' = current /\ current' = current
              ELSE IF Full(board')
              THEN winner' = Null /\ current' = current
              ELSE winner' = Null /\ current' = Other(current)
       ]_vars

\* O has just completed a line.
C8_Witness ==
  /\ call.path = "placed"
  /\ winner = "O"
  /\ current = "O"
  /\ board[call.idx] = "O"

\* ------------------------------------------------------------------------
\* C9 (as stated): under legal play at most one of the 8 triples is ever
\* complete in a reachable board.
\* ------------------------------------------------------------------------
C9_AtMostOneLine == Cardinality(CompleteLines(board)) <= 1

Min(S) == CHOOSE k \in S : \A j \in S : k <= j

\* ------------------------------------------------------------------------
\* C9 (amended): under legal play at most two of the 8 triples are ever
\* complete in a reachable board; every complete triple holds the recorded
\* winner's mark, so the evaluation order never decides the winner; the
\* line reported is the complete triple that comes first in WIN_LINES.
\* ------------------------------------------------------------------------
C9_AtMostTwoLines ==
  /\ Cardinality(CompleteLines(board)) <= 2
  /\ \A k \in CompleteLines(board) : board[WIN_LINES[k][1]] = winner
  /\ CompleteLines(board) # {} =>
       winningLine = WIN_LINES[Min(CompleteLines(board))]

\* One move has completed two triples; the earlier one is reported.
C9_Witness ==
  /\ Cardinality(CompleteLines(board)) = 2
  /\ call.path = "placed"
  /\ winningLine = WIN_LINES[Min(CompleteLines(board))]

\* ------------------------------------------------------------------------
\* C10: for every board in {empty, X, O}^9 getWinningLine returns the
\* first triple, in the order rows, columns, diagonals, whose cells are
\* non-empty and identical, and none exactly when no triple matches;
\* getWinner returns the mark on that triple or none; neither modifies the
\* board.
\* ------------------------------------------------------------------------
C10_Order ==
  << <<0, 1, 2>>, <<3, 4, 5>>, <<6, 7, 8>>,
     <<0, 3, 6>>, <<1, 4, 7>>, <<2, 5, 8>>,
     <<0, 4, 8>>, <<2, 4, 6>> >>

C10_Matching(b) ==
  {k \in 1 .. Len(C10_Order) :
     /\ b[C10_Order[k][1]] # Null
     /\ b[C10_Order[k][2]] = b[C10_Order[k][1]]
     /\ b[C10_Order[k][3]] = b[C10_Order[k][1]]}

C10_FirstMatchingLine ==
  /\ [](probe.fn = "getWinningLine" =>
          IF C10_Matching(probe.board) = {}
          THEN probe.line = NoLine
          ELSE probe.line = C10_Order[Min(C10_Matching(probe.board))])
  /\ [](probe.fn = "getWinner" =>
          IF C10_Matching(probe.board) = {}
          THEN probe.mark = Null
          ELSE probe.mark =
                 probe.board[C10_Order[Min(C10_Matching(probe.board))][1]])
  /\ [](probe.board = EmptyBoard => probe.line = NoLine /\ probe.mark = Null)
  /\ [][probe'.board = probe.board]_vars

\* getWinningLine was called on a board with two matching triples.
C10_Witness ==
  /\ probe.fn = "getWinningLine"
  /\ Cardinality(C10_Matching(probe.board)) >= 2
  /\ probe.line # NoLine

C12_DisabledIffRejected ==
  \A i \in Cells :
    /\ cellButtons[i].disabled <=>
         (board[i] # Null \/ winner # Null \/ (Full(board) /\ winner = Null))
    /\ cellButtons[i].disabled <=> Rejects(i)

\* A won game with an empty cell, whose control is disabled.
C12_Witness ==
  /\ winner # Null
  /\ \E i \in Cells : board[i] = Null /\ cellButtons[i].disabled
  /\ moveCount = 5

\* ------------------------------------------------------------------------
\* C13: between handlers the view is the one derived from the state: each
\* cell displays board[i] (blank when empty), the counter displays
\* moveCount, and cell i is highlighted iff i is in winningLine (no cell is
\* highlighted in progress, after a draw, or after a reset that follows a
\* win).
\* ------------------------------------------------------------------------
C13_ViewMatchesState ==
  /\ \A i \in Cells :
       /\ cellButtons[i].textContent = (IF board[i] = Null THEN "" ELSE board[i])
       /\ cellButtons[i].win <=>
            (winningLine # NoLine /\
               i \in {winningLine[1], winningLine[2], winningLine[3]})
  /\ moveCountPill = <<"Moves: ", moveCount>>
  /\ winner = Null => \A i \in Cells : ~cellButtons[i].win

\* A reset that follows a win has removed the highlight.
C13_Witness ==
  /\ call.op = "resetGame"
  /\ call.from = "Won"
  /\ call.hard
  /\ \A i \in Cells : ~cellButtons[i].win /\ cellButtons[i].textContent = ""

\* ------------------------------------------------------------------------
\* C14: from a fresh state the activations 0, 3, 1, 4, 2 end with
\* winningLine = [0,1,2], winner = X, moveCount = 5, status "Winner: X" and
\* exactly cells 0, 1, 2 flagged as win.
\* ------------------------------------------------------------------------
C14_ScenarioA ==
  trail = ScenarioA =>
    /\ winningLine = <<0, 1, 2>>
    /\ winner = "X"
    /\ moveCount = 5
    /\ statusEl.text = <<"Winner: ", "X">>
    /\ {i \in Cells : cellButtons[i].win} = {0, 1, 2}

C14_Witness ==
  /\ trail = ScenarioA
  /\ board = [EmptyBoard EXCEPT ![0] = "X", ![1] = "X", ![2] = "X",
                                ![3] = "O", ![4] = "O"]

\* ------------------------------------------------------------------------
\* C15: from a fresh state the activations 0, 1, 2, 4, 3, 5, 7, 6, 8 are
\* all accepted with marks alternating X, O, ..., X, no winner is set after
\* any prefix, and the end has no winner, isDraw(board) true, moveCount = 9
\* and all 9 cell controls disabled.
\* ------------------------------------------------------------------------
C15_ScenarioB ==
  (trail # << >> /\ IsPrefix(trail, ScenarioB)) =>
    LET k == Len(trail)
    IN  /\ call.op = "handleMove"
        /\ call.idx = ScenarioB[k]
        /\ call.path = "placed"
        /\ \A j \in 1 .. k :
             board[ScenarioB[j]] = (IF j % 2 = 1 THEN "X" ELSE "O")
        /\ moveCount = k
        /\ winner = Null
        /\ k = Len(ScenarioB) =>
             /\ isDraw(board)
             /\ \A i \in Cells : cellButtons[i].disabled

C15_Witness ==
  /\ trail = ScenarioB
  /\ moveCount = 9
  /\ Full(board)

\* ------------------------------------------------------------------------
\* C16: when the move that fills the ninth cell completes a line the
\* outcome is Won, not Drawn: winner and winningLine are set, isDraw(board)
\* is false and the status reports the winner; a draw is reported only for
\* a full board on which no triple is complete.
\* ------------------------------------------------------------------------
C16_FullBoardWin ==
  /\ (Full(board) /\ CompleteLines(board) # {}) =>
       /\ winner # Null
       /\ winningLine # NoLine
       /\ ~isDraw(board)
       /\ statusEl.text = <<"Winner: ", winner>>
       /\ "status--draw" \notin statusEl.classes
  /\ (statusEl.text = <<"It's a draw.">> \/ "status--draw" \in statusEl.classes
      \/ isDraw(board)) =>
       (Full(board) /\ CompleteLines(board) = {})

\* The ninth move has just won the game.
C16_Witness ==
  /\ call.path = "placed"
  /\ moveCount = 9
  /\ winner = "X"

\* ------------------------------------------------------------------------
\* C17: in every reachable state winner = getWinner(board) and
\* winningLine = getWinningLine(board), so a board with a complete line
\* never coexists with winner = none.
\* ------------------------------------------------------------------------
C17_OutcomeMatchesBoard ==
  /\ winner = getWinner(board)
  /\ winningLine = getWinningLine(board)
  /\ CompleteLines(board) # {} => winner # Null

C17_Witness ==
  /\ winner = "X"
  /\ winningLine = <<0, 4, 8>>
  /\ getWinner(board) = "X"

\* ------------------------------------------------------------------------
\* C18: an accepted handleMove(idx) changes exactly cell idx, from empty to
\* the current mark; a placed mark is never overwritten or removed by a
\* cell activation, and only resetGame empties cells.
\* ------------------------------------------------------------------------
C18_OneCellPerMove ==
  [][ /\ AcceptedStep =>
           /\ board[call'.idx] = Null
           /\ board'[call'.idx] = current
           /\ \A i \in Cells \ {call'.idx} : board'[i] = board[i]
      /\ MoveStep => \A i \in Cells : board[i] # Null => board'[i] = board[i]
      /\ (\E i \in Cells : board[i] # Null /\ board'[i] = Null) =>
           call'.op = "resetGame"
    ]_vars

\* The fourth mark of a match has been placed beside three others.
C18_Witness ==
  /\ call.path = "placed"
  /\ moveCount = 4
  /\ Cardinality(Occupied(board)) = 4

\* ------------------------------------------------------------------------
\* C19: the number of X minus the number of O is 0 or 1; in progress,
\* current is X exactly when the counts are equal and O exactly when X has
\* one more; winner X implies an odd moveCount >= 5, winner O an even
\* moveCount >= 6, and a draw implies moveCount = 9 with current = X.
\* ------------------------------------------------------------------------
Count(m) == Cardinality({i \in Cells : board[i] = m})

C19_Parity ==
  /\ Count("X") - Count("O") \in {0, 1}
  /\ Phase = "InProgress" =>
       /\ current = "X" <=> Count("X") = Count("O")
       /\ current = "O" <=> Count("X") = Count("O") + 1
  /\ winner = "X" => (moveCount % 2 = 1 /\ moveCount >= 5)
  /\ winner = "O" => (moveCount % 2 = 0 /\ moveCount >= 6)
  /\ (winner = Null /\ Full(board)) => (moveCount = 9 /\ current = "X")

\* O has won with its fourth mark.
C19_Witness ==
  /\ winner = "O"
  /\ moveCount = 8
  /\ Count("X") = 4

\* ------------------------------------------------------------------------
\* C20: moveCount never exceeds 9; in every in-progress state at least one
\* cell activation is accepted; every accepted move adds one to moveCount
\* and the ninth ends the match; and when enabled cells keep being
\* activated an in-progress match reaches Won or Drawn unless it is reset.
\* ------------------------------------------------------------------------
C20_MatchTerminates ==
  /\ [](moveCount <= 9)
  /\ [](Phase = "InProgress" => \E i \in Cells : ~Rejects(i))
  /\ [](moveCount = 9 => Phase # "InProgress")
  /\ [][AcceptedStep => moveCount' = moveCount + 1]_vars
  /\ (Phase = "InProgress") ~> (Phase # "InProgress" \/ call.op = "resetGame")

\* A match that ran to its ninth accepted move without a reset.
C20_Witness ==
  /\ focus = -1
  /\ moveCount = 9
  /\ call.path = "placed"
  /\ Phase = "Drawn"

====
